---------------------------- MODULE Spec2Model ----------------------------
(***************************************************************************)
(* Poseidon and identity CRH of webb-tools/crypto-primitives: the native   *)
(* realisation (crh/poseidon/mod.rs, crh/identity/mod.rs), the circuit     *)
(* realisation (crh/poseidon/constraints.rs, crh/identity/constraints.rs,  *)
(* crh/poseidon/sbox/constraints.rs) and the byte decoding of lib.rs.      *)
(*                                                                         *)
(* The prime field F is scaled down to the integers modulo Modulus and its *)
(* serialised size (F::BigInt::NUM_LIMBS * 8 bytes, 32 for the test field  *)
(* Fq) to max_size_bytes bytes; bytes keep their full range 0..255.        *)
(***************************************************************************)
EXTENDS Integers, Sequences, FiniteSets, TLC

(***************************************************************************)
(* Bounds of the model.                                                    *)
(***************************************************************************)
Modulus == 7          \* order of the stand-in prime field
NumBytes == 2         \* bytes of one serialised field element
MaxWidth == 3         \* Rounds::WIDTH ranges over 1..MaxWidth
MaxFullRounds == 4    \* Rounds::FULL_ROUNDS ranges over 0..MaxFullRounds
MaxPartialRounds == 2 \* Rounds::PARTIAL_ROUNDS ranges over 0..MaxPartialRounds

ByteBase == 256       \* a u8 holds 0..255

VARIABLES
    WIDTH,            \* Rounds::WIDTH
    FULL_ROUNDS,      \* Rounds::FULL_ROUNDS
    PARTIAL_ROUNDS,   \* Rounds::PARTIAL_ROUNDS
    SBOX,             \* Rounds::SBOX
    params,           \* the native PoseidonParameters bundle
    mode,             \* the AllocationMode asked of new_variable
    params_var,       \* the PoseidonParametersVar bundle, once allocated
    cs,               \* the constraint system
    input,            \* the input bytes of evaluate
    val,              \* the field element behind input (identity round trip)
    native_out,       \* outcome of the native call
    gadget_out,       \* outcome of the circuit call
    pm,               \* one permute call in progress
    mix               \* operands and results of apply_linear_layer

vars == <<WIDTH, FULL_ROUNDS, PARTIAL_ROUNDS, SBOX, params, mode, params_var,
          cs, input, val, native_out, gadget_out, pm, mix>>

Idle == "idle"

(***************************************************************************)
(* Outcomes of a call: a value, an Err(..) returned to the caller, or a    *)
(* panic that aborts the process.                                          *)
(***************************************************************************)
Ok(v) == [tag |-> "Ok", val |-> v, why |-> ""]
Err(e) == [tag |-> "Err", val |-> 0, why |-> e]
Panic(e) == [tag |-> "Panic", val |-> 0, why |-> e]

(***************************************************************************)
(* The field F and its byte encoding.                                      *)
(***************************************************************************)
Field == 0 .. (Modulus - 1)
FAdd(a, b) == (a + b) % Modulus
FMul(a, b) == (a * b) % Modulus
\* F::inverse: None (here -1) when the element has no inverse.
FInverse(a) ==
    IF \E y \in Field : (a * y) % Modulus = 1
    THEN CHOOSE y \in Field : (a * y) % Modulus = 1
    ELSE -1

\* F::BigInt::NUM_LIMBS * 8
max_size_bytes == NumBytes

RECURSIVE LeValue(_)
\* the integer a little-endian byte string stands for
LeValue(bytes) ==
    IF bytes = << >> THEN 0
    ELSE Head(bytes) + ByteBase * LeValue(Tail(bytes))

RECURSIVE LeBytes(_, _)
LeBytes(n, len) ==
    IF len = 0 THEN << >>
    ELSE <<n % ByteBase>> \o LeBytes(n \div ByteBase, len - 1)

\* to_bytes![v]: the canonical little-endian encoding, max_size_bytes long
ToBytes(v) == LeBytes(v, max_size_bytes)

\* F::from_le_bytes_mod_order: any byte string, reduced modulo the order
FromLeBytesModOrder(bytes) == LeValue(bytes) % Modulus

\* F::read(chunk): fails on a short read and on a value outside the field
FieldReadBE(chunk) ==
    IF Len(chunk) < max_size_bytes THEN Err("UnexpectedEof")
    ELSE LET n == LeValue([i \in 1..Len(chunk) |-> chunk[Len(chunk) + 1 - i]])
         IN IF n >= Modulus THEN Err("FromBytes::read failed") ELSE Ok(n)
FieldRead(chunk) ==
    IF Len(chunk) < max_size_bytes THEN Err("UnexpectedEof")
    ELSE IF LeValue(chunk) >= Modulus THEN Err("FromBytes::read failed")
    ELSE Ok(LeValue(chunk))

RECURSIVE Chunks(_, _)
\* slice::chunks(n): pieces of n elements, the last possibly shorter
Chunks(s, n) ==
    IF Len(s) = 0 THEN << >>
    ELSE IF Len(s) <= n THEN <<s>>
    ELSE <<SubSeq(s, 1, n)>> \o Chunks(SubSeq(s, n + 1, Len(s)), n)

\* to_field_elements: every chunk read, the first failure returned
to_field_elements(bytes) ==
    LET chunks == Chunks(bytes, max_size_bytes)
        reads == [i \in 1..Len(chunks) |-> FieldRead(chunks[i])]
    IN IF \E i \in 1..Len(reads) : reads[i].tag = "Err"
       THEN Err(reads[CHOOSE i \in 1..Len(reads) :
                        /\ reads[i].tag = "Err"
                        /\ \A j \in 1..(i - 1) : reads[j].tag = "Ok"].why)
       ELSE Ok([i \in 1..Len(reads) |-> reads[i].val])

(***************************************************************************)
(* The round schedule (trait Rounds) and the phases of permute.            *)
(***************************************************************************)
Sboxes == {"Exponentiation3", "Exponentiation5", "Inverse"}

\* the repetitions of each of the three loops of permute
PhaseRounds(phase) ==
    CASE phase = "full1" -> FULL_ROUNDS \div 2
      [] phase = "partial" -> PARTIAL_ROUNDS
      [] phase = "full2" -> FULL_ROUNDS \div 2
      [] OTHER -> 0

\* faulty variant: the partial rounds run after both groups of full rounds
PhaseAfterPartialLast(phase) ==
    CASE phase = "full1" -> "full2"
      [] phase = "full2" -> "partial"
      [] OTHER -> "done"

\* the loops of permute follow one another: full, partial, full
PhaseAfter(phase) ==
    CASE phase = "full1" -> "partial"
      [] phase = "partial" -> "full2"
      [] OTHER -> "done"

RECURSIVE EnterPhase(_)
\* the first loop from `phase` on that has an iteration to run
EnterPhase(phase) ==
    IF phase = "done" \/ PhaseRounds(phase) > 0 THEN phase
    ELSE EnterPhase(PhaseAfter(phase))

\* a permute call at its start: the cursor at 0, no round run yet
PermuteStart(state, sys) ==
    [state |-> state, round_keys_offset |-> 0,
     phase |-> EnterPhase("full1"), round |-> 0, i |-> 0, sboxed |-> FALSE,
     status |-> IF EnterPhase("full1") = "done" THEN "Ok" ELSE "run",
     why |-> "", reads |-> << >>, trace |-> << >>, cs |-> sys]

\* the end of one iteration of a round loop: the next iteration, the next
\* loop, or the return of permute
EndRound(m, newState) ==
    LET last == m.round + 1 >= PhaseRounds(m.phase)
        phase == IF last THEN EnterPhase(PhaseAfter(m.phase)) ELSE m.phase
    IN [m EXCEPT !.state = newState, !.i = 0, !.sboxed = FALSE,
                 !.round = IF last THEN 0 ELSE m.round + 1,
                 !.phase = phase,
                 !.trace = Append(m.trace, m.phase),
                 !.status = IF phase = "done" THEN "Ok" ELSE "run"]

Stop(m, status, why) == [m EXCEPT !.status = status, !.why = why]

(***************************************************************************)
(* Native realisation: crh/poseidon/mod.rs.                                *)
(***************************************************************************)
\* PoseidonSbox::apply_sbox
apply_sbox(sbox, elem) ==
    CASE sbox = "Exponentiation3" -> Ok(FMul(elem, FMul(elem, elem)))
      [] sbox = "Exponentiation5" ->
            LET sqr == FMul(elem, elem)
                fourth == FMul(sqr, sqr)
            IN Ok(FMul(elem, fourth))
      [] OTHER ->
            IF FInverse(elem) = -1 THEN Err("ApplySboxFailed")
            ELSE Ok(FInverse(elem))

RECURSIVE RowSumFromOne(_, _, _)
\* faulty variant: the accumulator starts at one instead of F::zero()
RowSumFromOne(row, state, n) ==
    IF n = 0 THEN 1
    ELSE FAdd(RowSumFromOne(row, state, n - 1), FMul(row[n], state[n]))

RECURSIVE RowSum(_, _, _)
\* sc after the inner loop over j = 0 .. n-1: sc += mds[i][j] * state[j]
RowSum(row, state, n) ==
    IF n = 0 THEN 0
    ELSE FAdd(RowSum(row, state, n - 1), FMul(row[n], state[n]))


\* CRH::apply_linear_layer; mds[i][j] panics outside the matrix
apply_linear_layer(state, mds) ==
    IF \E i \in 1..Len(state) : Len(mds) < i \/ Len(mds[i]) < Len(state)
    THEN Panic("mds index out of bounds")
    ELSE Ok([i \in 1..Len(state) |-> RowSum(mds[i], state, Len(state))])

\* one iteration of the inner loop of a full round
native_full_key(parameters, m) ==
    IF m.i >= Len(m.state)
    THEN Stop(m, "Panic", "state index out of bounds")
    ELSE IF m.round_keys_offset >= Len(parameters.round_keys)
    THEN Stop(m, "Panic", "round_keys index out of bounds")
    ELSE LET added == FAdd(m.state[m.i + 1],
                           parameters.round_keys[m.round_keys_offset + 1])
             sb == apply_sbox(SBOX, added)
             read == [m EXCEPT !.reads = Append(m.reads, m.round_keys_offset),
                               !.state[m.i + 1] = added]
         IN IF sb.tag = "Err" THEN Stop(read, "Err", sb.why)
            ELSE [read EXCEPT !.state[m.i + 1] = sb.val,
                              !.round_keys_offset = m.round_keys_offset + 1,
                              !.i = m.i + 1]

\* one iteration of the inner loop of a partial round
native_partial_key(parameters, m) ==
    IF m.i >= Len(m.state)
    THEN Stop(m, "Panic", "state index out of bounds")
    ELSE IF m.round_keys_offset >= Len(parameters.round_keys)
    THEN Stop(m, "Panic", "round_keys index out of bounds")
    ELSE [m EXCEPT !.reads = Append(m.reads, m.round_keys_offset),
                   !.state[m.i + 1] =
                       FAdd(m.state[m.i + 1],
                            parameters.round_keys[m.round_keys_offset + 1]),
                   !.round_keys_offset = m.round_keys_offset + 1,
                   !.i = m.i + 1]

\* faulty variant: the S-box of a partial round on the last position
native_partial_sbox_last(m) ==
    LET n == Len(m.state)
        sb == apply_sbox(SBOX, m.state[n])
    IN IF sb.tag = "Err" THEN Stop(m, "Err", sb.why)
       ELSE [m EXCEPT !.state[n] = sb.val, !.sboxed = TRUE]

\* state[0] = P::SBOX.apply_sbox(state[0])?
native_partial_sbox(m) ==
    LET sb == apply_sbox(SBOX, m.state[1])
    IN IF sb.tag = "Err" THEN Stop(m, "Err", sb.why)
       ELSE [m EXCEPT !.state[1] = sb.val, !.sboxed = TRUE]

\* state = Self::apply_linear_layer(&state, &params.mds_matrix)
native_linear(parameters, m) ==
    LET mixed == apply_linear_layer(m.state, parameters.mds_matrix)
    IN IF mixed.tag = "Panic" THEN Stop(m, "Panic", mixed.why)
       ELSE EndRound(m, mixed.val)

\* where a running permute call stands
AtKey(m) == m.status = "run" /\ m.i < WIDTH
AtPartialSbox(m) ==
    m.status = "run" /\ m.i >= WIDTH /\ m.phase = "partial" /\ ~m.sboxed
AtLinear(m) ==
    m.status = "run" /\ m.i >= WIDTH /\ (m.phase /= "partial" \/ m.sboxed)

\* the next step of CRH::permute
native_step(parameters, m) ==
    IF AtKey(m)
    THEN IF m.phase = "partial" THEN native_partial_key(parameters, m)
         ELSE native_full_key(parameters, m)
    ELSE IF AtPartialSbox(m) THEN native_partial_sbox(m)
    ELSE native_linear(parameters, m)

RECURSIVE permute(_, _)
\* CRH::permute, run from m to its return
permute(parameters, m) ==
    IF m.status /= "run" THEN m
    ELSE permute(parameters, native_step(parameters, m))

(***************************************************************************)
(* Circuit variables: an FpVar is a constant or a variable of the          *)
(* constraint system, and carries its assigned value.  Multiplying two     *)
(* variables allocates a witness and enforces one constraint; adding, and  *)
(* multiplying by a constant, only builds a linear combination.            *)
(***************************************************************************)
NewConstraintSystem ==
    [num_instance_variables |-> 1, num_witness_variables |-> 0,
     num_constraints |-> 0, is_satisfied |-> TRUE]

FpConstant(v) == [kind |-> "Constant", value |-> v]
FpVariable(v) == [kind |-> "Var", value |-> v]

\* FpVar::from(AllocatedFp::new_variable(cs, || Ok(v), Witness)): the
\* variable is a fresh witness of the system; no constraint mentions it, so
\* the system admits any field element as its assignment
FpWitness(v, index) ==
    [kind |-> "Var", value |-> v, variable |-> "Witness", index |-> index,
     admits |-> Field]

\* AllocatedFp over cs.new_lc(combined_lc): the variable is the linear
\* combination of existing variables, so their assignment fixes its own
FpSymbolicLc(v) ==
    [kind |-> "Var", value |-> v, variable |-> "SymbolicLc", admits |-> {v}]

\* AllocatedFp::new_variable(cs, || Ok(v), mode): a fresh variable of the
\* system, tied to nothing
AllocWitness(sys) ==
    [sys EXCEPT !.num_witness_variables = sys.num_witness_variables + 1]

\* FpVar + FpVar
FpAdd(a, b) ==
    [kind |-> IF a.kind = "Constant" /\ b.kind = "Constant"
              THEN "Constant" ELSE "Var",
     value |-> FAdd(a.value, b.value)]

\* FpVar * FpVar, with the constraint system it leaves
FpMul(sys, a, b) ==
    IF a.kind = "Constant" /\ b.kind = "Constant"
    THEN [v |-> FpConstant(FMul(a.value, b.value)), cs |-> sys]
    ELSE IF a.kind = "Constant" \/ b.kind = "Constant"
    THEN [v |-> FpVariable(FMul(a.value, b.value)), cs |-> sys]
    ELSE [v |-> FpVariable(FMul(a.value, b.value)),
          cs |-> [AllocWitness(sys) EXCEPT
                    !.num_constraints = sys.num_constraints + 1]]

\* FpVar::inverse: a constant without inverse is an Err; a variable gets a
\* witness holding the inverse, or zero, and the constraint x * inv = 1
FpInverse(sys, a) ==
    IF a.kind = "Constant"
    THEN IF FInverse(a.value) = -1
         THEN [tag |-> "Err", v |-> a, cs |-> sys]
         ELSE [tag |-> "Ok", v |-> FpConstant(FInverse(a.value)), cs |-> sys]
    ELSE LET inv == IF FInverse(a.value) = -1 THEN 0 ELSE FInverse(a.value)
         IN [tag |-> "Ok", v |-> FpVariable(inv),
             cs |-> [AllocWitness(sys) EXCEPT
                       !.num_constraints = sys.num_constraints + 1,
                       !.is_satisfied =
                           sys.is_satisfied /\ FMul(a.value, inv) = 1]]

(***************************************************************************)
(* Circuit realisation: crh/poseidon/sbox/constraints.rs and               *)
(* crh/poseidon/constraints.rs.                                            *)
(***************************************************************************)
synthesize_exp3_sbox(sys, input_var) ==
    LET sqr == FpMul(sys, input_var, input_var)
        cube == FpMul(sqr.cs, input_var, sqr.v)
    IN [tag |-> "Ok", v |-> cube.v, cs |-> cube.cs]

synthesize_exp5_sbox(sys, input_var) ==
    LET sqr == FpMul(sys, input_var, input_var)
        fourth == FpMul(sqr.cs, sqr.v, sqr.v)
        fifth == FpMul(fourth.cs, input_var, fourth.v)
    IN [tag |-> "Ok", v |-> fifth.v, cs |-> fifth.cs]

\* input_var.inverse().unwrap()
synthesize_inverse_sbox(sys, input_var) ==
    LET inv == FpInverse(sys, input_var)
    IN IF inv.tag = "Err" THEN [inv EXCEPT !.tag = "Panic"] ELSE inv

\* SboxConstraints::synthesize_sbox
synthesize_sbox(sys, sbox, input_var) ==
    CASE sbox = "Exponentiation3" -> synthesize_exp3_sbox(sys, input_var)
      [] sbox = "Exponentiation5" -> synthesize_exp5_sbox(sys, input_var)
      [] OTHER -> synthesize_inverse_sbox(sys, input_var)

RECURSIVE GadgetRowSum(_, _, _, _)
\* sc after the inner loop over j = 0 .. n-1: sc += mij * state[j].clone()
GadgetRowSum(sys, row, state, n) ==
    IF n = 0 THEN [v |-> FpConstant(0), cs |-> sys]
    ELSE LET sc == GadgetRowSum(sys, row, state, n - 1)
             prod == FpMul(sc.cs, row[n], state[n])
         IN [v |-> FpAdd(sc.v, prod.v), cs |-> prod.cs]

RECURSIVE GadgetRows(_, _, _, _)
\* new_state after the outer loop over i = 0 .. n-1
GadgetRows(sys, state, mds_matrix, n) ==
    IF n = 0 THEN [val |-> << >>, cs |-> sys]
    ELSE LET done == GadgetRows(sys, state, mds_matrix, n - 1)
             sc == GadgetRowSum(done.cs, mds_matrix[n], state, Len(state))
         IN [val |-> Append(done.val, sc.v), cs |-> sc.cs]

\* CRHGadget::apply_linear_layer; mds_matrix[i][j] panics outside the matrix
gadget_apply_linear_layer(sys, state, mds_matrix) ==
    IF \E i \in 1..Len(state) :
          Len(mds_matrix) < i \/ Len(mds_matrix[i]) < Len(state)
    THEN [tag |-> "Panic", val |-> << >>, cs |-> sys]
    ELSE LET rows == GadgetRows(sys, state, mds_matrix, Len(state))
         IN [tag |-> "Ok", val |-> rows.val, cs |-> rows.cs]

\* one iteration of the inner loop of a full round
gadget_full_key(parameters, m) ==
    IF m.i >= Len(m.state)
    THEN Stop(m, "Panic", "state index out of bounds")
    ELSE IF m.round_keys_offset >= Len(parameters.round_keys)
    THEN Stop(m, "Panic", "round_keys index out of bounds")
    ELSE LET added == FpAdd(m.state[m.i + 1],
                            parameters.round_keys[m.round_keys_offset + 1])
             sb == synthesize_sbox(m.cs, SBOX, added)
             read == [m EXCEPT !.reads = Append(m.reads, m.round_keys_offset),
                               !.state[m.i + 1] = added]
         IN IF sb.tag /= "Ok" THEN Stop(read, sb.tag, "synthesize_sbox")
            ELSE [read EXCEPT !.state[m.i + 1] = sb.v,
                              !.cs = sb.cs,
                              !.round_keys_offset = m.round_keys_offset + 1,
                              !.i = m.i + 1]

\* one iteration of the inner loop of a partial round
gadget_partial_key(parameters, m) ==
    IF m.i >= Len(m.state)
    THEN Stop(m, "Panic", "state index out of bounds")
    ELSE IF m.round_keys_offset >= Len(parameters.round_keys)
    THEN Stop(m, "Panic", "round_keys index out of bounds")
    ELSE [m EXCEPT !.reads = Append(m.reads, m.round_keys_offset),
                   !.state[m.i + 1] =
                       FpAdd(m.state[m.i + 1],
                             parameters.round_keys[m.round_keys_offset + 1]),
                   !.round_keys_offset = m.round_keys_offset + 1,
                   !.i = m.i + 1]

\* state[0] = P::SBOX.synthesize_sbox(state[0].clone())?.into()
gadget_partial_sbox(m) ==
    LET sb == synthesize_sbox(m.cs, SBOX, m.state[1])
    IN IF sb.tag /= "Ok" THEN Stop(m, sb.tag, "synthesize_sbox")
       ELSE [m EXCEPT !.state[1] = sb.v, !.cs = sb.cs, !.sboxed = TRUE]

\* state = Self::apply_linear_layer(&state, &parameters.mds_matrix)
gadget_linear(parameters, m) ==
    LET mixed == gadget_apply_linear_layer(m.cs, m.state, parameters.mds_matrix)
    IN IF mixed.tag = "Panic" THEN Stop(m, "Panic", "mds index out of bounds")
       ELSE EndRound([m EXCEPT !.cs = mixed.cs], mixed.val)

\* the next step of CRHGadget::permute
gadget_step(parameters, m) ==
    IF AtKey(m)
    THEN IF m.phase = "partial" THEN gadget_partial_key(parameters, m)
         ELSE gadget_full_key(parameters, m)
    ELSE IF AtPartialSbox(m) THEN gadget_partial_sbox(m)
    ELSE gadget_linear(parameters, m)

RECURSIVE gadget_permute(_, _)
\* CRHGadget::permute, run from m to its return
gadget_permute(parameters, m) ==
    IF m.status /= "run" THEN m
    ELSE gadget_permute(parameters, gadget_step(parameters, m))

(***************************************************************************)
(* The facades: CRH::evaluate and CRHGadget::evaluate of Poseidon, the     *)
(* parameter allocation, and the identity CRH.                             *)
(***************************************************************************)
\* a permute call that never started
NoRun ==
    [state |-> << >>, round_keys_offset |-> 0, phase |-> "none", round |-> 0,
     i |-> 0, sboxed |-> FALSE, status |-> "none", why |-> "",
     reads |-> << >>, trace |-> << >>, cs |-> Idle]

\* what a call of evaluate did: its outcome, the state it handed to permute
\* (buffer) and the permute call it made (run)
Call(outcome, called, buffer, run) ==
    [tag |-> outcome.tag, val |-> outcome.val, why |-> outcome.why,
     called |-> called, buffer |-> buffer, run |-> run]

NotCalled == Call([tag |-> "None", val |-> 0, why |-> ""], FALSE, << >>, NoRun)

\* poseidon/mod.rs has its own copy of lib.rs' to_field_elements
poseidon_to_field_elements(bytes) ==
    LET chunks == Chunks(bytes, max_size_bytes)
        reads == [i \in 1..Len(chunks) |-> FieldRead(chunks[i])]
    IN IF \E i \in 1..Len(reads) : reads[i].tag = "Err"
       THEN Err(reads[CHOOSE i \in 1..Len(reads) :
                        /\ reads[i].tag = "Err"
                        /\ \A j \in 1..(i - 1) : reads[j].tag = "Ok"].why)
       ELSE Ok([i \in 1..Len(reads) |-> reads[i].val])

\* faulty variant: slot 0 is kept at zero and the input starts at slot 1
ZeroPaddedAfterCapacity(f_inputs) ==
    [i \in 1..WIDTH |->
        IF i >= 2 /\ i - 1 <= Len(f_inputs) THEN f_inputs[i - 1] ELSE 0]

\* vec![F::zero(); P::WIDTH], then zip(f_inputs) overwrites from index 0
ZeroPadded(f_inputs) ==
    [i \in 1..WIDTH |-> IF i <= Len(f_inputs) THEN f_inputs[i] ELSE 0]

\* faulty variant: the output is taken from slot 0
output_slot_zero(state) ==
    IF Len(state) < 1 THEN Panic("unwrap on None") ELSE Ok(state[1])

\* result.get(1).cloned().unwrap()
output_slot(state) ==
    IF Len(state) < 2 THEN Panic("unwrap on None") ELSE Ok(state[2])

\* <CRH as FixedLengthCRH>::evaluate of Poseidon
evaluate(parameters, bytes) ==
    LET f_inputs == poseidon_to_field_elements(bytes)
    IN IF f_inputs.tag = "Err"
       THEN Call(Err(f_inputs.why), FALSE, << >>, NoRun)
       ELSE IF Len(f_inputs.val) > WIDTH
       THEN Call(Panic("incorrect input length"), FALSE, << >>, NoRun)
       ELSE LET buffer == ZeroPadded(f_inputs.val)
                result == permute(parameters, PermuteStart(buffer, Idle))
            IN IF result.status /= "Ok"
               THEN Call([tag |-> result.status, val |-> 0,
                          why |-> result.why], TRUE, buffer, result)
               ELSE Call(output_slot(result.state), TRUE, buffer, result)

\* the literal 32 of CRHGadget::evaluate: the serialised size of the test
\* field, which is max_size_bytes here
GadgetChunkBytes == NumBytes

\* assert_eq!(input.len() / 32, P::WIDTH)
InputShapeOk(bytes) == Len(bytes) \div GadgetChunkBytes = WIDTH

\* result.map(|x| x.get(1).cloned().unwrap()), as the value of the variable
gadget_output_slot(state) ==
    IF Len(state) < 2 THEN Panic("unwrap on None") ELSE Ok(state[2].value)

\* <CRHGadget as FixedLengthCRHGadget>::evaluate of Poseidon; every chunk
\* becomes a fresh witness holding from_le_bytes_mod_order of its bytes
gadget_evaluate(parameters, sys, bytes) ==
    IF ~InputShapeOk(bytes)
    THEN Call(Panic("assert_eq"), FALSE, << >>, [NoRun EXCEPT !.cs = sys])
    ELSE LET chunks == Chunks(bytes, GadgetChunkBytes)
             f_var_inputs ==
                 [i \in 1..Len(chunks) |->
                     FpWitness(FromLeBytesModOrder(chunks[i]),
                               sys.num_witness_variables + i - 1)]
             allocated ==
                 [sys EXCEPT !.num_witness_variables =
                                 sys.num_witness_variables + Len(chunks)]
             result == gadget_permute(parameters,
                                      PermuteStart(f_var_inputs, allocated))
         IN IF result.status /= "Ok"
            THEN Call([tag |-> result.status, val |-> 0, why |-> result.why],
                      TRUE, f_var_inputs, result)
            ELSE Call(gadget_output_slot(result.state), TRUE, f_var_inputs,
                      result)

NotAllocated == [allocated |-> FALSE, round_keys |-> << >>, mds_matrix |-> << >>]

\* faulty variant: the bundle is allocated in the mode the caller asks for
new_variable_in_mode(parameters, m, sys) ==
    LET alloc(v) == IF m = "Constant" THEN FpConstant(v) ELSE FpVariable(v)
        n == Len(parameters.round_keys)
    IN [bundle |->
            [allocated |-> TRUE,
             round_keys |-> [i \in 1..n |-> alloc(parameters.round_keys[i])],
             mds_matrix |->
                 [i \in 1..Len(parameters.mds_matrix) |->
                     [j \in 1..Len(parameters.mds_matrix[i]) |->
                         alloc(parameters.mds_matrix[i][j])]]],
        cs |-> IF m = "Witness"
               THEN [sys EXCEPT !.num_witness_variables = @ + n]
               ELSE IF m = "Input"
               THEN [sys EXCEPT !.num_instance_variables = @ + n]
               ELSE sys]

\* <PoseidonParametersVar as AllocVar>::new_variable: _cs and _mode unused
new_variable(parameters, m, sys) ==
    [bundle |->
        [allocated |-> TRUE,
         round_keys |->
             [i \in 1..Len(parameters.round_keys) |->
                 FpConstant(parameters.round_keys[i])],
         mds_matrix |->
             [i \in 1..Len(parameters.mds_matrix) |->
                 [j \in 1..Len(parameters.mds_matrix[i]) |->
                     FpConstant(parameters.mds_matrix[i][j])]]],
     cs |-> sys]

\* <identity::CRH as CRH>::evaluate
identity_evaluate(bytes) ==
    LET f_inputs == to_field_elements(bytes)
    IN IF f_inputs.tag = "Err" THEN Err(f_inputs.why)
       ELSE IF Len(f_inputs.val) /= 1 THEN Panic("assert")
       ELSE Ok(f_inputs.val[1])

\* Boolean::le_bits_to_fp_var(chunk.to_bits_le()): the linear combination
\* of the chunk's bits; a chunk as wide as the field is also enforced to be
\* below the modulus
le_bits_to_fp_var(sys, chunk) ==
    [v |-> FpSymbolicLc(FromLeBytesModOrder(chunk)),
     cs |-> IF Len(chunk) >= max_size_bytes
            THEN [sys EXCEPT !.is_satisfied = @ /\ LeValue(chunk) < Modulus]
            ELSE sys]

RECURSIVE to_field_var_elements(_, _)
\* to_field_var_elements over the chunks of the byte variables
to_field_var_elements(sys, chunks) ==
    IF chunks = << >> THEN [val |-> << >>, cs |-> sys]
    ELSE LET n == Len(chunks)
             done == to_field_var_elements(sys, SubSeq(chunks, 1, n - 1))
             var == le_bits_to_fp_var(done.cs, chunks[n])
         IN [val |-> Append(done.val, var.v), cs |-> var.cs]

\* <identity::CRHGadget as CRHGadget>::evaluate
identity_gadget_evaluate(sys, bytes) ==
    LET f_var_inputs ==
            to_field_var_elements(sys, Chunks(bytes, max_size_bytes))
    IN IF Len(f_var_inputs.val) /= 1
       THEN [out |-> Panic("assert"), cs |-> f_var_inputs.cs]
       ELSE [out |-> Ok(f_var_inputs.val[1].value), cs |-> f_var_inputs.cs]

(***************************************************************************)
(* The inputs the model draws: round schedules, parameter bundles of the   *)
(* declared shape and of wrong shapes (PoseidonParameters::new takes any   *)
(* two vectors), and byte strings made of canonical chunks, chunks at or   *)
(* above the modulus, and a short last chunk.                              *)
(***************************************************************************)
\* W * (F + P): the round keys the declared schedule asks for
KeyCount == WIDTH * (FULL_ROUNDS + PARTIAL_ROUNDS)

ParamShapes == {"ok", "short_keys", "long_keys", "short_row", "few_rows"}
ParamSeeds == {1, 2}

RoundKeyAt(seed, i) == (seed + 3 * i) % Modulus
MdsAt(seed, i, j) == (seed + i + 2 * j) % Modulus

\* PoseidonParameters::new(round_keys, mds_matrix): the fields as given
PoseidonParameters_new(round_keys, mds_matrix) ==
    [round_keys |-> round_keys, mds_matrix |-> mds_matrix]

ParamBundle(shape, seed) ==
    LET nkeys == CASE shape = "short_keys" -> KeyCount - 1
                   [] shape = "long_keys" -> KeyCount + 1
                   [] OTHER -> KeyCount
        nrows == IF shape = "few_rows" THEN WIDTH - 1 ELSE WIDTH
        ncols(i) == IF shape = "short_row" /\ i = WIDTH THEN WIDTH - 1 ELSE WIDTH
    IN PoseidonParameters_new(
           [i \in 1..nkeys |-> RoundKeyAt(seed, i - 1)],
           [i \in 1..nrows |-> [j \in 1..ncols(i) |-> MdsAt(seed, i - 1, j - 1)]])

\* the shapes a schedule allows (no vector of negative length)
ShapesFor(shapes) == {sh \in shapes : sh = "short_keys" => KeyCount >= 1}

\* the bundle has the shape the schedule declares
WellFormed(parameters) ==
    /\ Len(parameters.round_keys) = KeyCount
    /\ Len(parameters.mds_matrix) = WIDTH
    /\ \A i \in 1..Len(parameters.mds_matrix) :
           Len(parameters.mds_matrix[i]) = WIDTH

InputElems == {0, 1}
InputChunks ==
    {ToBytes(e) : e \in InputElems} \cup {ToBytes(Modulus + 2)}

RECURSIVE ChunkStrings(_)
\* the concatenations of n chunks
ChunkStrings(n) ==
    IF n = 0 THEN {<< >>}
    ELSE {c \o s : c \in InputChunks, s \in ChunkStrings(n - 1)}

\* up to w + 1 whole chunks, then up to max_size_bytes - 1 further bytes
Inputs(w) ==
    {s \o [i \in 1..r |-> 1] :
        s \in UNION {ChunkStrings(n) : n \in 0..(w + 1)},
        r \in 0..(max_size_bytes - 1)}

(***************************************************************************)
(* Spec: one native and one circuit evaluation of Poseidon on the same     *)
(* bytes and parameters, as in test_poseidon_native_equality: the bundle   *)
(* is allocated, the native CRH is evaluated, then the gadget.             *)
(***************************************************************************)
InitSchedule ==
    /\ WIDTH \in 1..MaxWidth
    /\ FULL_ROUNDS \in 0..MaxFullRounds
    /\ PARTIAL_ROUNDS \in 0..MaxPartialRounds
    /\ SBOX \in Sboxes

Init ==
    /\ InitSchedule
    /\ params \in {ParamBundle(sh, seed) :
                      sh \in ShapesFor({"ok", "short_keys", "few_rows"}),
                      seed \in ParamSeeds}
    /\ mode = "Constant"
    /\ params_var = NotAllocated
    /\ cs = NewConstraintSystem
    /\ input \in Inputs(WIDTH)
    /\ val = Idle
    /\ native_out = NotCalled
    /\ gadget_out = NotCalled
    /\ pm = Idle
    /\ mix = Idle

Schedule == <<WIDTH, FULL_ROUNDS, PARTIAL_ROUNDS, SBOX>>

AllocateParameters ==
    /\ ~params_var.allocated
    /\ params_var' = new_variable(params, mode, cs).bundle
    /\ cs' = new_variable(params, mode, cs).cs
    /\ UNCHANGED <<Schedule, params, mode, input, val, native_out,
                   gadget_out, pm, mix>>

NativeEvaluate ==
    /\ params_var.allocated
    /\ native_out.tag = "None"
    /\ native_out' = evaluate(params, input)
    /\ UNCHANGED <<Schedule, params, mode, params_var, cs, input, val,
                   gadget_out, pm, mix>>

GadgetEvaluate ==
    /\ native_out.tag /= "None"
    /\ gadget_out.tag = "None"
    /\ gadget_out' = gadget_evaluate(params_var, cs, input)
    /\ cs' = gadget_out'.run.cs
    /\ UNCHANGED <<Schedule, params, mode, params_var, input, val,
                   native_out, pm, mix>>

Next == AllocateParameters \/ NativeEvaluate \/ GadgetEvaluate

Spec == Init /\ [][Next]_vars

(***************************************************************************)
(* SpecPermute: one permute call, native or circuit, taken step by step:   *)
(* each round-key read, each partial-round S-box and each linear layer is  *)
(* a step, so the cursor and the state are seen between them.              *)
(***************************************************************************)
StateElems == {0, 1}

InitPermute ==
    /\ InitSchedule
    /\ params \in {ParamBundle(sh, seed) :
                      sh \in ShapesFor(ParamShapes), seed \in ParamSeeds}
    /\ mode = "Constant"
    /\ params_var = new_variable(params, mode, NewConstraintSystem).bundle
    /\ cs = NewConstraintSystem
    /\ input = << >>
    /\ val = Idle
    /\ native_out = NotCalled
    /\ gadget_out = NotCalled
    /\ \E realisation \in {"native", "circuit"},
          state \in [1..WIDTH -> StateElems] :
          pm = [realisation |-> realisation,
                start |-> state,
                m |-> IF realisation = "native"
                      THEN PermuteStart(state, Idle)
                      ELSE PermuteStart([i \in 1..WIDTH |-> FpVariable(state[i])],
                                        NewConstraintSystem)]
    /\ mix = Idle

PermuteFrame ==
    UNCHANGED <<Schedule, params, mode, params_var, cs, input, val,
                native_out, gadget_out, mix>>

NativeRoundKey ==
    /\ pm.realisation = "native"
    /\ AtKey(pm.m)
    /\ pm' = [pm EXCEPT !.m = native_step(params, pm.m)]
    /\ PermuteFrame

NativePartialSbox ==
    /\ pm.realisation = "native"
    /\ AtPartialSbox(pm.m)
    /\ pm' = [pm EXCEPT !.m = native_step(params, pm.m)]
    /\ PermuteFrame

NativeLinearLayer ==
    /\ pm.realisation = "native"
    /\ AtLinear(pm.m)
    /\ pm' = [pm EXCEPT !.m = native_step(params, pm.m)]
    /\ PermuteFrame

GadgetRoundKey ==
    /\ pm.realisation = "circuit"
    /\ AtKey(pm.m)
    /\ pm' = [pm EXCEPT !.m = gadget_step(params_var, pm.m)]
    /\ PermuteFrame

GadgetPartialSbox ==
    /\ pm.realisation = "circuit"
    /\ AtPartialSbox(pm.m)
    /\ pm' = [pm EXCEPT !.m = gadget_step(params_var, pm.m)]
    /\ PermuteFrame

GadgetLinearLayer ==
    /\ pm.realisation = "circuit"
    /\ AtLinear(pm.m)
    /\ pm' = [pm EXCEPT !.m = gadget_step(params_var, pm.m)]
    /\ PermuteFrame

NextPermute ==
    \/ NativeRoundKey \/ NativePartialSbox \/ NativeLinearLayer
    \/ GadgetRoundKey \/ GadgetPartialSbox \/ GadgetLinearLayer

SpecPermute == InitPermute /\ [][NextPermute]_vars

(***************************************************************************)
(* SpecMix: apply_linear_layer, native and circuit, on two states a and b  *)
(* and on their elementwise sum, with a W x W matrix.                      *)
(***************************************************************************)
MixElems == {0, 1, 2, Modulus - 1}

StateAdd(a, b) == [i \in 1..Len(a) |-> FAdd(a[i], b[i])]
AsVars(state) == [i \in 1..Len(state) |-> FpVariable(state[i])]
Values(state) == [i \in 1..Len(state) |-> state[i].value]

InitMix ==
    /\ WIDTH \in 1..MaxWidth
    /\ FULL_ROUNDS = 0
    /\ PARTIAL_ROUNDS = 0
    /\ SBOX = "Exponentiation5"
    /\ \E seed \in ParamSeeds :
          params = PoseidonParameters_new(
                       << >>,
                       [i \in 1..WIDTH |->
                           [j \in 1..WIDTH |-> MdsAt(seed, i - 1, j - 1)]])
    /\ mode = "Constant"
    /\ params_var = new_variable(params, mode, NewConstraintSystem).bundle
    /\ cs = NewConstraintSystem
    /\ input = << >>
    /\ val = Idle
    /\ native_out = NotCalled
    /\ gadget_out = NotCalled
    /\ pm = Idle
    /\ \E a \in [1..WIDTH -> MixElems], b \in [1..WIDTH -> MixElems] :
          mix = [a |-> a, b |-> b, native |-> << >>, gadget |-> << >>]

NativeMix ==
    /\ mix.native = << >>
    /\ mix' = [mix EXCEPT !.native =
                  <<apply_linear_layer(mix.a, params.mds_matrix),
                    apply_linear_layer(mix.b, params.mds_matrix),
                    apply_linear_layer(StateAdd(mix.a, mix.b),
                                       params.mds_matrix)>>]
    /\ UNCHANGED <<Schedule, params, mode, params_var, cs, input, val,
                   native_out, gadget_out, pm>>

GadgetMix ==
    /\ mix.gadget = << >>
    /\ mix' = [mix EXCEPT !.gadget =
                  <<gadget_apply_linear_layer(cs, AsVars(mix.a),
                                              params_var.mds_matrix),
                    gadget_apply_linear_layer(cs, AsVars(mix.b),
                                              params_var.mds_matrix),
                    gadget_apply_linear_layer(cs, AsVars(StateAdd(mix.a, mix.b)),
                                              params_var.mds_matrix)>>]
    /\ UNCHANGED <<Schedule, params, mode, params_var, cs, input, val,
                   native_out, gadget_out, pm>>

NextMix == NativeMix \/ GadgetMix

SpecMix == InitMix /\ [][NextMix]_vars

(***************************************************************************)
(* SpecIdentity: the identity CRH, native and circuit, on the encoding of  *)
(* a field element (val >= 0) and on other byte strings (val = -1).        *)
(***************************************************************************)
InitIdentity ==
    /\ WIDTH = 1
    /\ FULL_ROUNDS = 0
    /\ PARTIAL_ROUNDS = 0
    /\ SBOX = "Exponentiation5"
    /\ params = PoseidonParameters_new(<< >>, << >>)
    /\ mode = "Constant"
    /\ params_var = NotAllocated
    /\ cs = NewConstraintSystem
    /\ \/ val \in Field /\ input = ToBytes(val)
       \/ val = -1 /\ input \in Inputs(MaxWidth)
    /\ native_out = NotCalled
    /\ gadget_out = NotCalled
    /\ pm = Idle
    /\ mix = Idle

IdentityEvaluate ==
    /\ native_out.tag = "None"
    /\ native_out' = Call(identity_evaluate(input), FALSE, << >>, NoRun)
    /\ UNCHANGED <<Schedule, params, mode, params_var, cs, input, val,
                   gadget_out, pm, mix>>

IdentityGadgetEvaluate ==
    /\ gadget_out.tag = "None"
    /\ gadget_out' =
           Call(identity_gadget_evaluate(cs, input).out, FALSE, << >>, NoRun)
    /\ cs' = identity_gadget_evaluate(cs, input).cs
    /\ UNCHANGED <<Schedule, params, mode, params_var, input, val,
                   native_out, pm, mix>>

NextIdentity == IdentityEvaluate \/ IdentityGadgetEvaluate

SpecIdentity == InitIdentity /\ [][NextIdentity]_vars

(***************************************************************************)
(* SpecAlloc: PoseidonParametersVar::new_variable on every bundle and in   *)
(* every allocation mode.                                                  *)
(***************************************************************************)
AllocationModes == {"Constant", "Input", "Witness"}

InitAlloc ==
    /\ InitSchedule
    /\ params \in {ParamBundle(sh, seed) :
                      sh \in ShapesFor(ParamShapes), seed \in ParamSeeds}
    /\ mode \in AllocationModes
    /\ params_var = NotAllocated
    /\ cs = NewConstraintSystem
    /\ input = << >>
    /\ val = Idle
    /\ native_out = NotCalled
    /\ gadget_out = NotCalled
    /\ pm = Idle
    /\ mix = Idle

NextAlloc == AllocateParameters

SpecAlloc == InitAlloc /\ [][NextAlloc]_vars

(***************************************************************************)
(* Claims.                                                                 *)
(***************************************************************************)
\* what the native decoding of the input gives
Decoded == poseidon_to_field_elements(input)

\* C1 (as claimed, on the inputs of exactly W whole chunks and with the
\* power S-boxes): whenever the circuit evaluate returns an output variable,
\* the native evaluate on the same bytes and parameters returns a value
\* too, and the two values are equal.
C1_CrossRealisationEquivalence ==
    (gadget_out.tag = "Ok" /\ Len(input) = WIDTH * max_size_bytes
                           /\ SBOX /= "Inverse")
        => native_out.tag = "Ok" /\ native_out.val = gadget_out.val

\* C2 (as claimed): an input that decodes to more than W field elements
\* makes the native evaluate return Err(IncorrectInputLength), without a
\* panic and without a permutation round.
C2_OverWidthIsTypedError ==
    (native_out.tag /= "None" /\ Decoded.tag = "Ok" /\ Len(Decoded.val) > WIDTH)
        => /\ native_out.tag = "Err"
           /\ native_out.why = "IncorrectInputLength"
           /\ ~native_out.called

\* C4 (as claimed): an input whose chunking does not give exactly W chunks
\* is rejected by the circuit evaluate at its first line, before a field
\* variable is allocated and before permute is called.
C4_ExactWidthOrRejected ==
    (gadget_out.tag /= "None" /\ Len(Chunks(input, GadgetChunkBytes)) /= WIDTH)
        => /\ gadget_out.tag = "Panic"
           /\ gadget_out.why = "assert_eq"
           /\ ~gadget_out.called
           /\ cs.num_witness_variables = 0

\* C5 (as claimed): the state the native evaluate hands to permute has the
\* additive identity in slot 0, whatever the input.
C5_SlotZeroReserved ==
    native_out.called => native_out.buffer[1] = 0

\* C5 (amended): slot 0 of the state handed to permute holds the first
\* decoded element of the input; it is the additive identity only when
\* the input decodes to no element or its first element is zero.
C5_SlotZeroIsFirstInput ==
    native_out.called =>
        /\ Decoded.tag = "Ok"
        /\ native_out.buffer[1] =
               IF Len(Decoded.val) = 0 THEN 0 ELSE Decoded.val[1]

C5_Witness ==
    /\ native_out.called
    /\ native_out.buffer[1] /= 0
    /\ native_out.tag = "Ok"

\* C3 (as claimed): a bundle whose shape differs from the schedule's is
\* rejected at construction, so no permute call runs on one and none stops
\* on a round-key or matrix index out of range.
C3_ShapeValidatedAtConstruction ==
    /\ pm.m.reads /= << >> => WellFormed(params)
    /\ pm.m.why \notin {"round_keys index out of bounds",
                        "mds index out of bounds"}

\* C6: the identity CRH, native and circuit, returns v on the canonical
\* bytes of the field element v.
C6_IdentityRoundTrip ==
    val \in Field =>
        /\ native_out.tag /= "None" =>
               native_out.tag = "Ok" /\ native_out.val = val
        /\ gadget_out.tag /= "None" =>
               gadget_out.tag = "Ok" /\ gadget_out.val = val

C6_Witness ==
    /\ val \in Field
    /\ val > 1
    /\ native_out.tag = "Ok"
    /\ gadget_out.tag = "Ok"

\* C7: in every allocation mode new_variable returns a bundle of constants
\* carrying the native values at the same positions, and allocates no
\* instance or witness variable in the constraint system.
C7_ParametersAreConstants ==
    params_var.allocated =>
        /\ Len(params_var.round_keys) = Len(params.round_keys)
        /\ \A i \in 1..Len(params.round_keys) :
               params_var.round_keys[i] = FpConstant(params.round_keys[i])
        /\ Len(params_var.mds_matrix) = Len(params.mds_matrix)
        /\ \A i \in 1..Len(params.mds_matrix) :
               /\ Len(params_var.mds_matrix[i]) = Len(params.mds_matrix[i])
               /\ \A j \in 1..Len(params.mds_matrix[i]) :
                      params_var.mds_matrix[i][j] =
                          FpConstant(params.mds_matrix[i][j])
        /\ cs = NewConstraintSystem

C7_Witness ==
    /\ params_var.allocated
    /\ mode = "Witness"
    /\ Len(params_var.round_keys) >= 2
    /\ WellFormed(params)

\* C8: apply_linear_layer is linear, native and circuit: on a W x W matrix,
\* mix(a) + mix(b) = mix(a + b) elementwise for width-W states a and b.
\* (The operands are borrowed immutably: the step leaves them unchanged.)
C8_MixIsLinear ==
    /\ mix.native /= << >> =>
           /\ \A k \in 1..3 : mix.native[k].tag = "Ok"
           /\ Len(mix.native[3].val) = WIDTH
           /\ StateAdd(mix.native[1].val, mix.native[2].val) = mix.native[3].val
    /\ mix.gadget /= << >> =>
           /\ \A k \in 1..3 : mix.gadget[k].tag = "Ok"
           /\ Len(mix.gadget[3].val) = WIDTH
           /\ StateAdd(Values(mix.gadget[1].val), Values(mix.gadget[2].val))
                  = Values(mix.gadget[3].val)

C8_Witness ==
    /\ mix.native /= << >>
    /\ mix.gadget /= << >>
    /\ WIDTH >= 2
    /\ \E i \in 1..WIDTH : mix.native[1].val[i] /= 0 /\ mix.native[2].val[i] /= 0
    /\ mix.a /= mix.b

\* C9 (as claimed, for bundles of the declared shape and the power
\* S-boxes): for every width W >= 1 and every input that decodes to k <= W
\* elements, the native evaluate hands permute the k elements followed by
\* W - k zeros and completes with the element at index 1 of the final
\* state.
C9_CompletesForEveryWidth ==
    (/\ native_out.tag /= "None"
     /\ Decoded.tag = "Ok" /\ Len(Decoded.val) <= WIDTH
     /\ WellFormed(params) /\ SBOX /= "Inverse")
        => /\ native_out.called
           /\ Len(native_out.buffer) = WIDTH
           /\ \A i \in 1..WIDTH :
                  native_out.buffer[i] =
                      IF i <= Len(Decoded.val) THEN Decoded.val[i] ELSE 0
           /\ native_out.tag = "Ok"
           /\ native_out.val = native_out.run.state[2]

\* C9 (amended): for every input that decodes to k <= W elements the
\* native evaluate hands permute a state of exactly W elements, the k
\* decoded elements in order followed by W - k zeros; with a bundle of the
\* declared shape and a power S-box permute returns a final state; and
\* whenever permute returns a final state, the call returns its element at
\* index 1 if W >= 2 and panics on the missing index 1 if W = 1.
C9_PaddedStateAndOutputSlot ==
    (native_out.tag /= "None" /\ Decoded.tag = "Ok" /\ Len(Decoded.val) <= WIDTH)
        => /\ native_out.called
           /\ Len(native_out.buffer) = WIDTH
           /\ \A i \in 1..WIDTH :
                  native_out.buffer[i] =
                      IF i <= Len(Decoded.val) THEN Decoded.val[i] ELSE 0
           /\ (WellFormed(params) /\ SBOX /= "Inverse")
                  => native_out.run.status = "Ok"
           /\ native_out.run.status = "Ok" =>
                  /\ Len(native_out.run.state) = WIDTH
                  /\ IF WIDTH >= 2
                     THEN /\ native_out.tag = "Ok"
                          /\ native_out.val = native_out.run.state[2]
                     ELSE /\ native_out.tag = "Panic"
                          /\ native_out.why = "unwrap on None"

C9_Witness ==
    /\ native_out.tag = "Ok"
    /\ WIDTH >= 2
    /\ Len(Decoded.val) \in 1..(WIDTH - 1)
    /\ FULL_ROUNDS = 2 /\ PARTIAL_ROUNDS >= 1
    /\ native_out.val /= native_out.run.state[1]

\* the rounds of one permute call, in order
ExpectedTrace ==
    LET h == FULL_ROUNDS \div 2
    IN [k \in 1..(2 * h + PARTIAL_ROUNDS) |->
           IF k <= h THEN "full1"
           ELSE IF k <= h + PARTIAL_ROUNDS THEN "partial" ELSE "full2"]

C10_Cursor ==
    LET m == pm.m
    IN /\ \A k \in 1..Len(m.reads) : m.reads[k] = k - 1
       /\ m.status /= "Err" => m.round_keys_offset = Len(m.reads)
       /\ Len(m.trace) <= Len(ExpectedTrace)
       /\ \A k \in 1..Len(m.trace) : m.trace[k] = ExpectedTrace[k]
       /\ (m.status = "Ok" /\ FULL_ROUNDS % 2 = 0) =>
              /\ m.round_keys_offset = KeyCount
              /\ m.trace = ExpectedTrace
       /\ Len(params.round_keys) = KeyCount =>
              m.why /= "round_keys index out of bounds"

\* C10: in one permute call, native or circuit, the cursor starts at 0 and
\* never decreases, the keys are read at 0, 1, 2, ... each once and in
\* order, the rounds run as F/2 full, P partial, F/2 full, the cursor is
\* W * (F + P) when permute returns its final state (F even), and with
\* W * (F + P) round keys no read is out of range.
C10_RoundKeyCursor ==
    /\ [](C10_Cursor)
    /\ [][pm'.m.round_keys_offset \in
              {pm.m.round_keys_offset, pm.m.round_keys_offset + 1}]_vars

C10_Witness ==
    /\ pm.m.status = "Ok"
    /\ pm.realisation = "circuit"
    /\ WIDTH >= 2 /\ FULL_ROUNDS = 2 /\ PARTIAL_ROUNDS >= 1
    /\ pm.m.round_keys_offset = KeyCount
    /\ Len(params.round_keys) = KeyCount

(***************************************************************************)
(* The rounds of permute, position by position.                            *)
(***************************************************************************)
\* the field values a permute call holds, native or circuit
StateValues(m) ==
    IF pm.realisation = "native" THEN m.state
    ELSE [i \in 1..Len(m.state) |-> m.state[i].value]

\* the round keys as field values
KeyValues ==
    IF pm.realisation = "native" THEN params.round_keys
    ELSE [i \in 1..Len(params_var.round_keys) |->
             params_var.round_keys[i].value]

\* the value the S-box of the realisation gives for x
SboxValue(x) ==
    IF pm.realisation = "native" THEN apply_sbox(SBOX, x).val
    ELSE synthesize_sbox(NewConstraintSystem, SBOX, FpVariable(x)).v.value

\* the product of the matrix with the state
MatVec(state) ==
    [i \in 1..Len(state) |-> RowSum(params.mds_matrix[i], state, Len(state))]

\* the next step of the realisation of pm
StepOf(m) ==
    IF pm.realisation = "native" THEN native_step(params, m)
    ELSE gadget_step(params_var, m)

RECURSIVE StepsOf(_, _)
\* n steps of the realisation of pm
StepsOf(m, n) ==
    IF n = 0 \/ m.status /= "run" THEN m ELSE StepsOf(StepOf(m), n - 1)

\* a step that did not stop the call with an error or a panic
Stepped(m) == m.status \in {"run", "Ok"}

\* one step of permute, seen from the state before (m) and after (n)
C11_Step(m, n) ==
    LET s == StateValues(m)
        t == StateValues(n)
        o == m.round_keys_offset
    IN Stepped(n) =>
        /\ (AtKey(m) /\ m.phase = "partial") =>
              /\ t = [s EXCEPT ![m.i + 1] = FAdd(s[m.i + 1], KeyValues[o + 1])]
              /\ ~n.sboxed
        /\ (AtKey(m) /\ m.phase /= "partial") =>
              t = [s EXCEPT ![m.i + 1] =
                       SboxValue(FAdd(s[m.i + 1], KeyValues[o + 1]))]
        /\ AtPartialSbox(m) =>
              /\ m.i = WIDTH
              /\ t = [s EXCEPT ![1] = SboxValue(s[1])]
              /\ \A j \in 2..WIDTH : t[j] = s[j]
              /\ n.sboxed
        /\ AtLinear(m) =>
              /\ t = MatVec(s)
              /\ m.phase = "partial" => m.sboxed

\* a round seen whole from its start: what enters the linear layer and what
\* leaves it
C11_Round ==
    LET m == pm.m
        s == StateValues(m)
        o == m.round_keys_offset
        partial == m.phase = "partial"
        before == StepsOf(m, IF partial THEN WIDTH + 1 ELSE WIDTH)
        after == StepsOf(m, IF partial THEN WIDTH + 2 ELSE WIDTH + 1)
        entering == [j \in 1..WIDTH |->
                        IF partial /\ j >= 2 THEN FAdd(s[j], KeyValues[o + j])
                        ELSE SboxValue(FAdd(s[j], KeyValues[o + j]))]
    IN (m.status = "run" /\ m.i = 0) =>
        /\ (before.status = "run" /\ AtLinear(before)) =>
              /\ StateValues(before) = entering
              /\ before.round_keys_offset = o + WIDTH
        /\ Stepped(after) =>
              /\ StateValues(after) = MatVec(entering)
              /\ Len(after.trace) = Len(m.trace) + 1

C12_InitialStateFromByteVariables ==
    (/\ gadget_out.tag = "Ok" /\ native_out.tag = "Ok"
     /\ Len(input) = WIDTH * GadgetChunkBytes) =>
        LET chunks == Chunks(input, GadgetChunkBytes)
            state == gadget_out.buffer
        IN /\ Len(state) = Len(chunks)
           /\ \A i \in 1..Len(state) :
                  /\ state[i].variable = "SymbolicLc"
                  /\ state[i].admits = {FromLeBytesModOrder(chunks[i])}

=============================================================================
